---- MODULE Spec2Model ----
(***************************************************************************)
(* A model of the image resizer (js/app.js, js/theme.js).                  *)
(*                                                                         *)
(* Numbers.  A JavaScript number that the code computes is modelled as a   *)
(* tuple: <<n>> is the integer n and <<>> is NaN.  The text of an input    *)
(* field is modelled the same way: <<n>> is the decimal text of n and <<>> *)
(* is a text that is not a number (the empty field, "abc").                *)
(*                                                                         *)
(* Qualities.  The search of compressToTargetSize works on the qualities   *)
(* 0.05, 0.95, 1.0 and midpoints of these, at most ten halvings deep.  All *)
(* of them are integers once multiplied by 20 * 2^10, so a quality q is    *)
(* modelled by the integer q * QualityScale.                               *)
(***************************************************************************)
EXTENDS Integers, Sequences, FiniteSets, TLC

VARIABLES
    \* ---- the search of compressToTargetSize, stepped one iteration at a time
    pc,             \* position in compressToTargetSize: "loop", "fallback", "text", "done"
    search,         \* the locals of compressToTargetSize
    sEnc,           \* the encoder of the canvas under search (quality band -> data URL length)
    sTarget,        \* the argument targetSizeKB
    sResult,        \* what compressToTargetSize returned
    \* ---- the ImageResizer object and the page
    originalImage,  \* this.originalImage: [src, state, width, height]
    decoding,       \* the file whose data URL the image element is decoding, if any
    reads,          \* the FileReaders in flight (the files they read)
    rotationAngle,  \* this.rotationAngle
    aspectRatio,    \* this.aspectRatio, a reduced fraction <<p, q>>, or NaN
    widthInput,     \* elements.widthInput.value
    heightInput,    \* elements.heightInput.value
    canvas,         \* elements.canvas: [width, height, pic]
    preview,        \* elements.preview: [src, display]
    downloadLink,   \* elements.downloadLink: [href, display, text]
    overlay,        \* progressContainer and overlay carry the class 'active'
    progressText,   \* elements.progressText.textContent
    loading,        \* uploadArea carries the class 'loading'
    resizes,        \* the resizeImage calls suspended in simulateProgress
    notice,         \* the notification shown last
    last,           \* the transform that ran last: its arguments and outcome
    rotHist,        \* rotationAngle before each of the latest successive rotateImage calls
    events,         \* the user events the session has left
    \* ---- the theme of the page
    darkMode,       \* document.documentElement carries the class 'dark-mode'
    savedMode,      \* localStorage.getItem('darkMode'): "null", "true" or "false"
    themeClicks     \* the clicks on the .theme-toggle element so far

searchVars == <<pc, search, sEnc, sTarget, sResult>>

imageVars == <<originalImage, decoding, reads, loading>>

\* what the resizer retains between operations
retained == <<rotationAngle, aspectRatio, widthInput, heightInput, canvas,
              preview, downloadLink>>

themeVars == <<darkMode, savedMode, themeClicks>>

\* the image resizer proper
resizerVars == <<originalImage, decoding, reads, rotationAngle, aspectRatio,
                 widthInput, heightInput, canvas, preview, downloadLink, overlay,
                 progressText, loading, resizes, notice, last, rotHist>>

appVars == <<originalImage, decoding, reads, rotationAngle, aspectRatio,
             widthInput, heightInput, canvas, preview, downloadLink, overlay,
             progressText, loading, resizes, notice, last, rotHist, events,
             darkMode, savedMode, themeClicks>>

vars == <<pc, search, sEnc, sTarget, sResult, originalImage, decoding, reads,
          rotationAngle, aspectRatio, widthInput, heightInput, canvas, preview,
          downloadLink, overlay, progressText, loading, resizes, notice, last,
          rotHist, events, darkMode, savedMode, themeClicks>>

-----------------------------------------------------------------------------
(* Bounds of the model *)

\* data URL lengths the encoder can return for a canvas
\* (1365 characters are 1023.75 bytes, 1366 are 1024.5: 1 KB and 2 KB)
UrlLengths == {1365, 1366, 2731, 4097}

\* qualities (scaled) at which the encoder's output length may change
QualityCuts == <<1040, 10240, 19456>>


\* targets (in KB) the search is run against
SearchTargets == {<<1>>, <<2>>, <<3>>}

\* data URL lengths around 1 MB and 2 MB: sizes of 1024, 1025, 2048, 2049 KB
UnitUrlLengths == {1398101, 1398102, 2796202, 2796203}

\* the values typed as a target in MB
UnitValues == {<<1>>, <<2>>}

-----------------------------------------------------------------------------
(* JavaScript numbers *)

NaN == <<>>

Num(n) == <<n>>

IsNaN(x) == x = NaN

\* the truth value of a number: NaN and 0 are falsy
Truthy(x) == ~IsNaN(x) /\ x[1] # 0

\* x > 0 (false for NaN)
Positive(x) == ~IsNaN(x) /\ x[1] > 0

\* a <= b for an integer a and a number b (false when b is NaN)
LeqNum(a, b) == ~IsNaN(b) /\ a <= b[1]

\* x * k
Times(x, k) == IF IsNaN(x) THEN NaN ELSE Num(x[1] * k)

-----------------------------------------------------------------------------
(* The canvas element and its JPEG encoder *)

QualityScale == 20 * 1024

\* canvas.toDataURL('image/jpeg', 0.9) of lines 253, 321, 361
DefaultQuality == (9 * QualityScale) \div 10

\* the band of the encoder a quality falls into
BandOf(q) == 1 + Cardinality({k \in DOMAIN QualityCuts : QualityCuts[k] <= q})

Bands == 1 .. (Len(QualityCuts) + 1)

\* every encoder; the output length is a function of the quality alone
Encoders == [Bands -> UrlLengths]

\* the encoders whose output does not shrink as the quality grows
UnitEncoders == [Bands -> UnitUrlLengths]

Monotone(enc) == \A a, b \in Bands : a <= b => enc[a] <= enc[b]

NoUrl == <<>>

\* a canvas of zero area encodes to the text "data:,"
EmptyUrlLength == Len(<<"d", "a", "t", "a", ":", ",">>)

\* canvas.toDataURL('image/jpeg', quality): the data URL is modelled by what was
\* encoded (the canvas), the quality and the length of the text
ToDataURL(cv, enc, q) ==
    <<[pic |-> cv, quality |-> q,
       length |-> IF cv.width = 0 \/ cv.height = 0
                  THEN EmptyUrlLength ELSE enc[BandOf(q)]]>>

\* Math.ceil((dataUrl.length * 0.75) / 1024)
SizeKBOf(dataUrl) == (3 * dataUrl[1].length + 4095) \div 4096

-----------------------------------------------------------------------------
(* compressToTargetSize *)

MinQuality0 == QualityScale \div 20

MaxQuality0 == QualityScale

Quality0 == (19 * QualityScale) \div 20

Iterations == 10

\* let minQuality = 0.05, maxQuality = 1.0, quality = 0.95; bestDataUrl = '', bestSize = 0
SearchStart ==
    [i |-> 0, minQuality |-> MinQuality0, maxQuality |-> MaxQuality0,
     quality |-> Quality0, bestDataUrl |-> NoUrl, bestSize |-> 0,
     attempts |-> <<>>]

\* an iteration that moves to a lower quality whether or not the encode fitted
SearchStepDownward(st, cv, enc, targetSizeKB) ==
    LET dataUrl == ToDataURL(cv, enc, st.quality)
        sizeKB == SizeKBOf(dataUrl)
        fits == LeqNum(sizeKB, targetSizeKB)
    IN  [i |-> st.i + 1, minQuality |-> st.minQuality, maxQuality |-> st.quality,
         quality |-> (st.quality + st.minQuality) \div 2,
         bestDataUrl |-> IF fits THEN dataUrl ELSE st.bestDataUrl,
         bestSize |-> IF fits THEN sizeKB ELSE st.bestSize,
         attempts |-> Append(st.attempts, [quality |-> st.quality, sizeKB |-> sizeKB])]

\* one iteration of the for loop
SearchStep(st, cv, enc, targetSizeKB) ==
    LET dataUrl == ToDataURL(cv, enc, st.quality)
        sizeKB == SizeKBOf(dataUrl)
        tried == Append(st.attempts, [quality |-> st.quality, sizeKB |-> sizeKB])
    IN  IF LeqNum(sizeKB, targetSizeKB)
        THEN [i |-> st.i + 1, minQuality |-> st.quality, maxQuality |-> st.maxQuality,
              quality |-> (st.quality + st.maxQuality) \div 2,
              bestDataUrl |-> dataUrl, bestSize |-> sizeKB, attempts |-> tried]
        ELSE [i |-> st.i + 1, minQuality |-> st.minQuality, maxQuality |-> st.quality,
              quality |-> (st.quality + st.minQuality) \div 2,
              bestDataUrl |-> st.bestDataUrl, bestSize |-> st.bestSize,
              attempts |-> tried]

\* SearchFloor with the floor encode made at the last quality tried
SearchFloorAtLastQuality(st, cv, enc) ==
    IF st.bestDataUrl = NoUrl
    THEN LET dataUrl == ToDataURL(cv, enc, st.maxQuality)
         IN  [st EXCEPT !.bestDataUrl = dataUrl, !.bestSize = SizeKBOf(dataUrl),
                        !.attempts = Append(st.attempts,
                            [quality |-> st.maxQuality, sizeKB |-> SizeKBOf(dataUrl)])]
    ELSE st

\* SearchFloor with the floor encode made whether or not an attempt fitted
SearchFloorAlways(st, cv, enc) ==
    LET dataUrl == ToDataURL(cv, enc, MinQuality0)
    IN  [st EXCEPT !.bestDataUrl = IF @ = NoUrl THEN dataUrl ELSE @,
                   !.bestSize = IF st.bestDataUrl = NoUrl THEN SizeKBOf(dataUrl) ELSE @,
                   !.attempts = Append(st.attempts,
                       [quality |-> MinQuality0, sizeKB |-> SizeKBOf(dataUrl)])]

\* if (!bestDataUrl) { encode at 0.05 }
SearchFloor(st, cv, enc) ==
    IF st.bestDataUrl = NoUrl
    THEN LET dataUrl == ToDataURL(cv, enc, MinQuality0)
         IN  [st EXCEPT !.bestDataUrl = dataUrl, !.bestSize = SizeKBOf(dataUrl),
                        !.attempts = Append(st.attempts,
                            [quality |-> MinQuality0, sizeKB |-> SizeKBOf(dataUrl)])]
    ELSE st

\* bestSize >= 1024 ? `${(bestSize / 1024).toFixed(2)} MB` : `${bestSize} KB`
SizeText(bestSize) ==
    IF bestSize >= 1024
    THEN [unit |-> "MB", value |-> (200 * bestSize + 1024) \div 2048, per |-> 100]
    ELSE [unit |-> "KB", value |-> bestSize, per |-> 1]

RECURSIVE SearchLoop(_, _, _, _)
SearchLoop(st, cv, enc, targetSizeKB) ==
    IF st.i < Iterations
    THEN SearchLoop(SearchStep(st, cv, enc, targetSizeKB), cv, enc, targetSizeKB)
    ELSE st

\* the whole of compressToTargetSize: the data URL returned, the text written
\* to the download link and the encodes performed
CompressToTargetSize(cv, enc, targetSizeKB) ==
    LET st == SearchFloor(SearchLoop(SearchStart, cv, enc, targetSizeKB), cv, enc)
    IN  [dataUrl |-> st.bestDataUrl, sizeKB |-> st.bestSize,
         text |-> <<"Download", SizeText(st.bestSize)>>,
         encodes |-> st.attempts]

-----------------------------------------------------------------------------
(* Files the user can choose, and the image element *)

SupportedTypes == {"image/jpeg", "image/png", "image/gif", "image/webp"}

MaxFileSize == 20 * 1024 * 1024

File(name, type, size, readable, decodable, w, h) ==
    [name |-> name, type |-> type, size |-> size, readable |-> readable,
     decodable |-> decodable, width |-> w, height |-> h]

\* two pictures, a file of a supported type that does not decode, a file that
\* cannot be read, a file of another type and a file that is too large
Files ==
    { File("landscape", "image/jpeg", 500000, TRUE, TRUE, 800, 600),
      File("portrait", "image/png", 2000, TRUE, TRUE, 2, 5),
      File("corrupt", "image/png", 2000, TRUE, FALSE, 0, 0),
      File("unreadable", "image/gif", 2000, FALSE, FALSE, 0, 0),
      File("document", "text/plain", 2000, TRUE, FALSE, 0, 0),
      File("huge", "image/webp", MaxFileSize + 1, TRUE, TRUE, 9000, 9000) }

\* validateFile: the message shown when the file is refused, "" when it passes
ValidateFile(file) ==
    IF file.type \notin SupportedTypes THEN "unsupported-type"
    ELSE IF file.size > MaxFileSize THEN "too-large"
    ELSE ""

\* event.target.result of the FileReader: the data URL of the file
FileUrl(file) == <<[file |-> file.name]>>

\* new Image(): no src, nothing to draw
NewImage == [src |-> NoUrl, state |-> "unavailable", width |-> 0, height |-> 0]

\* originalImage.src = url.  An image element that shows a picture keeps it (and
\* its width and height) until the new one has been decoded; otherwise the new
\* request becomes the current one, with no dimensions yet.
SetSrc(img, url) ==
    IF img.state = "complete"
    THEN [img EXCEPT !.src = url]
    ELSE [src |-> url, state |-> "unavailable", width |-> 0, height |-> 0]

\* `!this.originalImage.src` of lines 198, 292, 340
HasSrc(img) == img.src # NoUrl

-----------------------------------------------------------------------------
(* Input fields and arithmetic *)

\* parseInt(text) for the texts of the model
ParseInt(text) == IF text = <<>> THEN NaN ELSE Num(text[1])

\* parseFloat(text) for the texts of the model
ParseFloat(text) == IF text = <<>> THEN NaN ELSE Num(text[1])

\* input.value = n
TextOf(x) == IF IsNaN(x) THEN <<>> ELSE <<x[1]>>

RECURSIVE GCD(_, _)
GCD(a, b) == IF b = 0 THEN a ELSE GCD(b, a % b)

\* width / height as a reduced fraction; 0 / 0 is NaN
Ratio(w, h) ==
    IF h = 0 THEN NaN ELSE LET g == GCD(w, h) IN <<w \div g, h \div g>>

\* Math.round(a / b) for b > 0: halves round up
Round(a, b) == (2 * a + b) \div (2 * b)

\* Math.round(value / aspectRatio) and Math.round(value * aspectRatio)
DivideByRatio(n, r) == Num(Round(n * r[2], r[1]))

TimesRatio(n, r) == Num(Round(n * r[1], r[2]))

\* !this.aspectRatio
RatioFalsy(r) == IsNaN(r) \/ r[1] = 0

-----------------------------------------------------------------------------
(* The canvas *)

Blank == [kind |-> "blank"]

\* the canvas of the page before anything is drawn (the size of a canvas
\* element that sets none)
DefaultCanvas == [width |-> 300, height |-> 150, pic |-> Blank]

\* canvas.width = v: the attribute is an unsigned long limited to non-negative
\* numbers.  NaN converts to 0; a negative integer converts to v + 2^32, which is
\* above 2^31 - 1, and such a value sets the default instead.
CanvasDim(v, default) ==
    IF IsNaN(v) THEN 0
    ELSE IF v[1] < 0 THEN default
    ELSE v[1]

\* ctx.drawImage(image, ...) draws nothing while the image has no picture and
\* throws InvalidStateError when the image is broken
DrawThrows(img) == img.state = "broken"

Drawn(img, how) == IF img.state = "complete" THEN how ELSE Blank

-----------------------------------------------------------------------------
(* generateOptimizedImage *)

NoText == <<>>

\* generateOptimizedImage testing `targetSize` alone, without `targetSize > 0`
GenerateOptimizedImageTruthyOnly(cv, enc, targetSize) ==
    IF Truthy(targetSize)
    THEN CompressToTargetSize(cv, enc, targetSize)
    ELSE LET dataUrl == ToDataURL(cv, enc, DefaultQuality)
         IN  [dataUrl |-> dataUrl, sizeKB |-> SizeKBOf(dataUrl), text |-> NoText,
              encodes |-> <<[quality |-> DefaultQuality, sizeKB |-> SizeKBOf(dataUrl)]>>]

GenerateOptimizedImage(cv, enc, targetSize) ==
    IF Truthy(targetSize) /\ Positive(targetSize)
    THEN CompressToTargetSize(cv, enc, targetSize)
    ELSE LET dataUrl == ToDataURL(cv, enc, DefaultQuality)
         IN  [dataUrl |-> dataUrl, sizeKB |-> SizeKBOf(dataUrl), text |-> NoText,
              encodes |-> <<[quality |-> DefaultQuality, sizeKB |-> SizeKBOf(dataUrl)]>>]

\* the conversion with 1000 KB to the MB
NormaliseTargetDecimal(targetSize, unit) ==
    IF unit = "MB" THEN Times(targetSize, 1000) ELSE targetSize

\* if (unit === 'MB') targetSize *= 1024
NormaliseTarget(targetSize, unit) ==
    IF unit = "MB" THEN Times(targetSize, 1024) ELSE targetSize

-----------------------------------------------------------------------------
(* Bounds of the session *)

\* user events (files chosen, fields edited, buttons and keys pressed) in a session
MaxEvents == 4

\* user events in a session of loads, rotations and crops
RotateEvents == 6

\* user events of a session of resizes against target sizes
EncodeEvents == 3

\* user events of a session of resizes, rotations and crops
TransformEvents == 4

\* user events of a session that watches the progress overlay
ProgressEvents == 3

\* user events of a session that clicks the theme toggle
ThemeEvents == 3

\* FileReaders in flight at once
MaxReads == 1

\* resizeImage calls suspended in simulateProgress at once
MaxResizes == 1

\* what the user types into the width and height fields
TypedTexts == {<<>>, <<0>>, <<-5>>, <<400>>}

\* what the target size field holds when resizeImage runs
TargetTexts == {<<>>, <<0>>, <<-1>>, <<1>>, <<2>>}

Units == {"KB", "MB"}

\* the target size and unit of the resizes of a session
SessionTargets == {<<NaN, "KB">>, <<Num(2), "KB">>}

\* two encoders that agree at the default quality: one grows with every band,
\* one never gets under 2 KB
AppEncoders == {<<1365, 1366, 2731, 4097>>, <<1366, 1366, 2731, 2731>>}

-----------------------------------------------------------------------------
(* The page after the ImageResizer is constructed *)

\* the arguments resizeImage reads from the page
Args(width, height, targetSize, unit) ==
    [width |-> width, height |-> height, targetSize |-> targetSize, unit |-> unit]

NoArgs == Args(NaN, NaN, NaN, "")

\* the record of a call of resizeImage, rotateImage or cropSquare: the image
\* element and the canvas size it found, its arguments, its outcome, the
\* rotation angle it left and the encodes it made
Called(op, outcome, args, angle, encodes) ==
    [op |-> op, outcome |-> outcome, image |-> originalImage,
     before |-> <<canvas.width, canvas.height>>, args |-> args,
     angle |-> angle, encodes |-> encodes]

\* what localStorage can hold under 'darkMode' when the page loads
SavedModes == {"null", "true", "false"}

\* the theme after the page has loaded: the script of theme.js (lines 109-115),
\* ThemeManager.loadTheme and ImageResizer.loadTheme all add the class when
\* 'true' is saved, and ImageResizer.loadTheme removes it otherwise
LoadTheme(saved) ==
    /\ darkMode = (saved = "true")
    /\ savedMode = saved
    /\ themeClicks = 0

\* the constructor of ImageResizer, before any file is chosen
ResizerInit ==
    /\ originalImage = NewImage
    /\ decoding = <<>>
    /\ reads = <<>>
    /\ rotationAngle = 0
    /\ aspectRatio = <<1, 1>>
    /\ widthInput = <<>>
    /\ heightInput = <<>>
    /\ canvas = DefaultCanvas
    /\ preview = [src |-> NoUrl, display |-> "none"]
    /\ downloadLink = [href |-> NoUrl, display |-> "none", text |-> <<"Download">>]
    /\ overlay = FALSE
    /\ progressText = <<"Processing...">>
    /\ loading = FALSE
    /\ resizes = <<>>
    /\ notice = ""
    /\ last = [op |-> "none", outcome |-> "", image |-> NewImage,
               before |-> <<DefaultCanvas.width, DefaultCanvas.height>>,
               args |-> NoArgs, angle |-> 0, encodes |-> <<>>]
    /\ rotHist = <<>>

\* a page opened with no theme saved
AppInit == LoadTheme("null") /\ ResizerInit

SearchIdle ==
    /\ pc = "idle"
    /\ search = SearchStart
    /\ sEnc = <<1365, 1365, 1365, 1365>>
    /\ sTarget = NaN
    /\ sResult = <<>>

Init == SearchIdle /\ AppInit /\ events = MaxEvents

\* a user event spends one of the events the session has left
Spend ==
    /\ events > 0 /\ events' = events - 1
    /\ UNCHANGED searchVars /\ UNCHANGED themeVars

\* a callback of a reader, of the image element or of a timer
Free == UNCHANGED events /\ UNCHANGED searchVars /\ UNCHANGED themeVars

Remove(seq, k) == [j \in 1 .. (Len(seq) - 1) |-> IF j < k THEN seq[j] ELSE seq[j + 1]]

-----------------------------------------------------------------------------
(* Loading a file: handleFileInput / handleDrop, processFile *)

\* validateFile refuses the file
ProcessFileRefused(file) ==
    /\ Spend
    /\ ValidateFile(file) # ""
    /\ notice' = ValidateFile(file)
    /\ UNCHANGED <<last, rotHist>>
    /\ UNCHANGED <<originalImage, decoding, reads, loading, rotationAngle,
                   aspectRatio, widthInput, heightInput, canvas, preview,
                   downloadLink, overlay, progressText, resizes>>

\* the file passes: showLoadingState, reader.readAsDataURL(file)
ProcessFile(file) ==
    /\ Spend
    /\ ValidateFile(file) = ""
    /\ Len(reads) < MaxReads
    /\ loading' = TRUE
    /\ reads' = Append(reads, file)
    /\ UNCHANGED <<last, rotHist>>
    /\ UNCHANGED <<originalImage, decoding, rotationAngle, aspectRatio,
                   widthInput, heightInput, canvas, preview, downloadLink,
                   overlay, progressText, resizes, notice>>

\* reader.onload: originalImage.src = event.target.result
ReaderLoad(k) ==
    /\ Free
    /\ k \in DOMAIN reads
    /\ reads[k].readable
    /\ originalImage' = SetSrc(originalImage, FileUrl(reads[k]))
    /\ decoding' = <<reads[k]>>
    /\ reads' = Remove(reads, k)
    /\ UNCHANGED <<last, rotHist>>
    /\ UNCHANGED <<loading, rotationAngle, aspectRatio, widthInput, heightInput,
                   canvas, preview, downloadLink, overlay, progressText, resizes,
                   notice>>

\* reader.onerror
ReaderError(k) ==
    /\ Free
    /\ k \in DOMAIN reads
    /\ ~reads[k].readable
    /\ reads' = Remove(reads, k)
    /\ loading' = FALSE
    /\ notice' = "read-failed"
    /\ UNCHANGED <<last, rotHist>>
    /\ UNCHANGED <<originalImage, decoding, rotationAngle, aspectRatio,
                   widthInput, heightInput, canvas, preview, downloadLink,
                   overlay, progressText, resizes>>

\* originalImage.onload: displayImage, updateInputs, hideLoadingState
ImageLoad ==
    /\ Free
    /\ decoding # <<>>
    /\ decoding[1].decodable
    /\ LET file == decoding[1]
           img == [src |-> FileUrl(file), state |-> "complete",
                   width |-> file.width, height |-> file.height]
       IN  /\ originalImage' = img
           /\ preview' = [src |-> img.src, display |-> "block"]
           /\ downloadLink' = [downloadLink EXCEPT !.display = "none"]
           /\ widthInput' = TextOf(Num(img.width))
           /\ heightInput' = TextOf(Num(img.height))
           /\ aspectRatio' = Ratio(img.width, img.height)
           /\ rotationAngle' = 0
    /\ decoding' = <<>>
    /\ loading' = FALSE
    /\ notice' = "loaded"
    /\ rotHist' = <<>>
    /\ UNCHANGED <<reads, canvas, overlay, progressText, resizes, last>>

\* originalImage.onerror: the image element is left broken, without a picture
ImageError ==
    /\ Free
    /\ decoding # <<>>
    /\ ~decoding[1].decodable
    /\ originalImage' = [src |-> FileUrl(decoding[1]), state |-> "broken",
                         width |-> 0, height |-> 0]
    /\ decoding' = <<>>
    /\ loading' = FALSE
    /\ notice' = "load-failed"
    /\ UNCHANGED <<last, rotHist>>
    /\ UNCHANGED <<reads, rotationAngle, aspectRatio, widthInput, heightInput,
                   canvas, preview, downloadLink, overlay, progressText, resizes>>

-----------------------------------------------------------------------------
(* Editing the width and height fields: maintainAspectRatio *)

TypeWidth(text) ==
    /\ Spend
    /\ widthInput' = text
    /\ heightInput' =
          IF RatioFalsy(aspectRatio) \/ ~HasSrc(originalImage) \/ text = <<>>
          THEN heightInput
          ELSE TextOf(DivideByRatio(text[1], aspectRatio))
    /\ UNCHANGED <<last, rotHist>>
    /\ UNCHANGED <<originalImage, decoding, reads, loading, rotationAngle,
                   aspectRatio, canvas, preview, downloadLink, overlay,
                   progressText, resizes, notice>>

TypeHeight(text) ==
    /\ Spend
    /\ heightInput' = text
    /\ widthInput' =
          IF RatioFalsy(aspectRatio) \/ ~HasSrc(originalImage) \/ text = <<>>
          THEN widthInput
          ELSE TextOf(TimesRatio(text[1], aspectRatio))
    /\ UNCHANGED <<last, rotHist>>
    /\ UNCHANGED <<originalImage, decoding, reads, loading, rotationAngle,
                   aspectRatio, canvas, preview, downloadLink, overlay,
                   progressText, resizes, notice>>

-----------------------------------------------------------------------------
(* resizeImage *)

\* lines 198-201: nothing was ever assigned to originalImage.src
ResizeNoImage ==
    /\ Spend
    /\ ~HasSrc(originalImage)
    /\ notice' = "no-image"
    /\ last' = Called("resize", "no-image", NoArgs, rotationAngle, <<>>)
    /\ rotHist' = <<>>
    /\ UNCHANGED <<originalImage, decoding, reads, loading, rotationAngle,
                   aspectRatio, widthInput, heightInput, canvas, preview,
                   downloadLink, overlay, progressText, resizes>>

\* lines 203-211: the width or the height parses to NaN or to 0
ResizeInvalid ==
    /\ Spend
    /\ HasSrc(originalImage)
    /\ ~Truthy(ParseInt(widthInput)) \/ ~Truthy(ParseInt(heightInput))
    /\ notice' = "invalid-input"
    /\ last' = Called("resize", "invalid-input",
                      Args(ParseInt(widthInput), ParseInt(heightInput), NaN, ""),
                      rotationAngle, <<>>)
    /\ rotHist' = <<>>
    /\ UNCHANGED <<originalImage, decoding, reads, loading, rotationAngle,
                   aspectRatio, widthInput, heightInput, canvas, preview,
                   downloadLink, overlay, progressText, resizes>>

\* lines 203-220: the arguments are read, the overlay is shown, the canvas is
\* cleared and the call waits for simulateProgress
ResizeStart(targetText, unit) ==
    /\ Spend
    /\ HasSrc(originalImage)
    /\ Truthy(ParseInt(widthInput)) /\ Truthy(ParseInt(heightInput))
    /\ Len(resizes) < MaxResizes
    /\ overlay' = TRUE
    /\ progressText' = <<"Processing...">>
    /\ canvas' = [canvas EXCEPT !.pic = Blank]
    /\ LET args == Args(ParseInt(widthInput), ParseInt(heightInput),
                        ParseFloat(targetText), unit)
       IN  /\ resizes' = Append(resizes, [args |-> args, progress |-> 0])
           /\ last' = Called("resize", "started", args, rotationAngle, <<>>)
    /\ rotHist' = <<>>
    /\ UNCHANGED <<originalImage, decoding, reads, loading, rotationAngle,
                   aspectRatio, widthInput, heightInput, preview, downloadLink,
                   notice>>

ProgressStep == 5

ProgressEnd == 90

\* `${Math.round(percent)}% Complete`
PercentText(percent) == <<percent, "% Complete">>

\* a tick of the interval of simulateProgress that does not end it
ProgressTick(k) ==
    /\ Free
    /\ k \in DOMAIN resizes
    /\ resizes[k].progress + ProgressStep < ProgressEnd
    /\ resizes' = [resizes EXCEPT ![k].progress = @ + ProgressStep]
    /\ progressText' = PercentText(resizes[k].progress + ProgressStep)
    /\ UNCHANGED <<originalImage, decoding, reads, loading, rotationAngle,
                   aspectRatio, widthInput, heightInput, canvas, preview,
                   downloadLink, overlay, notice, last, rotHist>>

\* a resize that never enlarges the picture
ResizedCanvasNoUpscale(args, img) ==
    [width |-> IF img.state = "complete" /\ img.width < args.width[1]
               THEN img.width ELSE CanvasDim(args.width, DefaultCanvas.width),
     height |-> IF img.state = "complete" /\ img.height < args.height[1]
                THEN img.height ELSE CanvasDim(args.height, DefaultCanvas.height),
     pic |-> IF DrawThrows(img) THEN Blank
             ELSE Drawn(img, [kind |-> "scaled", img |-> img.src,
                              dw |-> args.width[1], dh |-> args.height[1]])]

\* the canvas of lines 226-230
ResizedCanvas(args, img) ==
    [width |-> CanvasDim(args.width, DefaultCanvas.width),
     height |-> CanvasDim(args.height, DefaultCanvas.height),
     pic |-> IF DrawThrows(img) THEN Blank
             ELSE Drawn(img, [kind |-> "scaled", img |-> img.src,
                              dw |-> args.width[1], dh |-> args.height[1]])]

\* the last tick resolves simulateProgress and the call runs to its end
\* (lines 222-241) before any other event is handled
ResizeFinish(k, enc) ==
    /\ Free
    /\ k \in DOMAIN resizes
    /\ resizes[k].progress + ProgressStep >= ProgressEnd
    /\ ~DrawThrows(originalImage)
    /\ LET args == resizes[k].args
           cv == ResizedCanvas(args, originalImage)
           out == GenerateOptimizedImage(cv, enc,
                      NormaliseTarget(args.targetSize, args.unit))
       IN  /\ canvas' = cv
           /\ preview' = [preview EXCEPT !.src = out.dataUrl]
           /\ downloadLink' =
                 [href |-> out.dataUrl, display |-> "inline-block",
                  text |-> IF out.text = NoText THEN downloadLink.text ELSE out.text]
           /\ last' = Called("resize", "resized", args, rotationAngle, out.encodes)
    /\ resizes' = Remove(resizes, k)
    /\ progressText' = PercentText(resizes[k].progress + ProgressStep)
    /\ overlay' = FALSE
    /\ notice' = "resized"
    /\ rotHist' = <<>>
    /\ UNCHANGED <<originalImage, decoding, reads, loading, rotationAngle,
                   aspectRatio, widthInput, heightInput>>

\* the catch block without hideProgress
ResizeFailOverlayLeft(k) ==
    /\ Free
    /\ k \in DOMAIN resizes
    /\ resizes[k].progress + ProgressStep >= ProgressEnd
    /\ DrawThrows(originalImage)
    /\ canvas' = ResizedCanvas(resizes[k].args, originalImage)
    /\ last' = Called("resize", "failed", resizes[k].args, rotationAngle, <<>>)
    /\ resizes' = Remove(resizes, k)
    /\ progressText' = PercentText(resizes[k].progress + ProgressStep)
    /\ notice' = "unexpected"
    /\ rotHist' = <<>>
    /\ UNCHANGED <<originalImage, decoding, reads, loading, rotationAngle,
                   aspectRatio, widthInput, heightInput, preview, downloadLink,
                   overlay>>

\* drawImage throws: lines 243-246
ResizeFail(k) ==
    /\ Free
    /\ k \in DOMAIN resizes
    /\ resizes[k].progress + ProgressStep >= ProgressEnd
    /\ DrawThrows(originalImage)
    /\ canvas' = ResizedCanvas(resizes[k].args, originalImage)
    /\ last' = Called("resize", "failed", resizes[k].args, rotationAngle, <<>>)
    /\ resizes' = Remove(resizes, k)
    /\ progressText' = PercentText(resizes[k].progress + ProgressStep)
    /\ overlay' = FALSE
    /\ notice' = "unexpected"
    /\ rotHist' = <<>>
    /\ UNCHANGED <<originalImage, decoding, reads, loading, rotationAngle,
                   aspectRatio, widthInput, heightInput, preview, downloadLink>>

-----------------------------------------------------------------------------
(* rotateImage *)

\* lines 292-295: nothing was ever assigned to originalImage.src
RotateNoImage ==
    /\ Spend
    /\ ~HasSrc(originalImage)
    /\ notice' = "no-image"
    /\ last' = Called("rotate", "no-image", NoArgs, rotationAngle, <<>>)
    /\ rotHist' = <<>>
    /\ UNCHANGED <<originalImage, decoding, reads, loading, rotationAngle,
                   aspectRatio, widthInput, heightInput, canvas, preview,
                   downloadLink, overlay, progressText, resizes>>

\* the angle incremented without wrapping at 360
NextAngleNoWrap(angle) == angle + 90

\* a half turn at every call
NextAngleHalfTurn(angle) == (angle + 180) % 360

\* (this.rotationAngle + 90) % 360
NextAngle(angle) == (angle + 90) % 360

\* lines 303-306
RotatedWidth(angle, img) == IF angle % 180 = 0 THEN img.width ELSE img.height

RotatedHeight(angle, img) == IF angle % 180 = 0 THEN img.height ELSE img.width

\* a rotation of what the canvas shows, not of the source: the sizes of the
\* canvas swap at every call
RotatedCanvasOfPrevious(angle, img) ==
    [width |-> canvas.height, height |-> canvas.width,
     pic |-> IF DrawThrows(img) THEN Blank
             ELSE Drawn(img, [kind |-> "rotated", img |-> img.src, angle |-> angle])]

\* the canvas of lines 308-319
RotatedCanvas(angle, img) ==
    [width |-> CanvasDim(Num(RotatedWidth(angle, img)), DefaultCanvas.width),
     height |-> CanvasDim(Num(RotatedHeight(angle, img)), DefaultCanvas.height),
     pic |-> IF DrawThrows(img) THEN Blank
             ELSE Drawn(img, [kind |-> "rotated", img |-> img.src, angle |-> angle])]

\* at most the four latest entries
Latest4(seq) == IF Len(seq) > 4 THEN SubSeq(seq, Len(seq) - 3, Len(seq)) ELSE seq

RotateImage(enc) ==
    /\ Spend
    /\ HasSrc(originalImage)
    /\ ~DrawThrows(originalImage)
    /\ LET angle == NextAngle(rotationAngle)
           cv == RotatedCanvas(angle, originalImage)
           dataUrl == ToDataURL(cv, enc, DefaultQuality)
       IN  /\ rotationAngle' = angle
           /\ canvas' = cv
           /\ preview' = [preview EXCEPT !.src = dataUrl]
           /\ downloadLink' = [href |-> dataUrl, display |-> "inline-block",
                               text |-> <<"Download">>]
           /\ widthInput' = TextOf(Num(RotatedWidth(angle, originalImage)))
           /\ heightInput' = TextOf(Num(RotatedHeight(angle, originalImage)))
           /\ aspectRatio' = Ratio(RotatedWidth(angle, originalImage),
                                   RotatedHeight(angle, originalImage))
           /\ last' = Called("rotate", "rotated", NoArgs, angle,
                             <<[quality |-> DefaultQuality, sizeKB |-> SizeKBOf(dataUrl)]>>)
    /\ notice' = "rotated"
    /\ rotHist' = Latest4(Append(rotHist, rotationAngle))
    /\ UNCHANGED <<originalImage, decoding, reads, loading, overlay,
                   progressText, resizes>>

\* drawImage throws after the angle and the canvas are set: lines 334-336
RotateFail ==
    /\ Spend
    /\ HasSrc(originalImage)
    /\ DrawThrows(originalImage)
    /\ rotationAngle' = NextAngle(rotationAngle)
    /\ canvas' = RotatedCanvas(NextAngle(rotationAngle), originalImage)
    /\ notice' = "unexpected"
    /\ last' = Called("rotate", "failed", NoArgs, NextAngle(rotationAngle), <<>>)
    /\ rotHist' = Latest4(Append(rotHist, rotationAngle))
    /\ UNCHANGED <<originalImage, decoding, reads, loading, aspectRatio,
                   widthInput, heightInput, preview, downloadLink, overlay,
                   progressText, resizes>>

-----------------------------------------------------------------------------
(* cropSquare *)

\* lines 340-343: nothing was ever assigned to originalImage.src
CropNoImage ==
    /\ Spend
    /\ ~HasSrc(originalImage)
    /\ notice' = "no-image"
    /\ last' = Called("crop", "no-image", NoArgs, rotationAngle, <<>>)
    /\ rotHist' = <<>>
    /\ UNCHANGED <<originalImage, decoding, reads, loading, rotationAngle,
                   aspectRatio, widthInput, heightInput, canvas, preview,
                   downloadLink, overlay, progressText, resizes>>

Min(a, b) == IF a <= b THEN a ELSE b

\* the longer side instead of the shorter
CropSizeLongerSide(img) == IF img.width >= img.height THEN img.width ELSE img.height

\* Math.min(this.originalImage.width, this.originalImage.height)
CropSize(img) == Min(img.width, img.height)

\* (width - size) / 2 and (height - size) / 2, as fractions over 2
CropSx(img) == <<img.width - CropSize(img), 2>>

CropSy(img) == <<img.height - CropSize(img), 2>>

\* the canvas sized to the whole picture instead of the square
CroppedCanvasUncut(img) ==
    [width |-> CanvasDim(Num(img.width), DefaultCanvas.width),
     height |-> CanvasDim(Num(img.height), DefaultCanvas.height),
     pic |-> IF DrawThrows(img) THEN Blank
             ELSE Drawn(img, [kind |-> "cropped", img |-> img.src,
                              sx |-> CropSx(img), sy |-> CropSy(img),
                              size |-> CropSize(img)])]

\* the canvas of lines 353-359
CroppedCanvas(img) ==
    [width |-> CanvasDim(Num(CropSize(img)), DefaultCanvas.width),
     height |-> CanvasDim(Num(CropSize(img)), DefaultCanvas.height),
     pic |-> IF DrawThrows(img) THEN Blank
             ELSE Drawn(img, [kind |-> "cropped", img |-> img.src,
                              sx |-> CropSx(img), sy |-> CropSy(img),
                              size |-> CropSize(img)])]

CropSquare(enc) ==
    /\ Spend
    /\ HasSrc(originalImage)
    /\ ~DrawThrows(originalImage)
    /\ LET cv == CroppedCanvas(originalImage)
           dataUrl == ToDataURL(cv, enc, DefaultQuality)
       IN  /\ canvas' = cv
           /\ preview' = [preview EXCEPT !.src = dataUrl]
           /\ downloadLink' = [href |-> dataUrl, display |-> "inline-block",
                               text |-> <<"Download">>]
           /\ last' = Called("crop", "cropped", NoArgs, rotationAngle,
                             <<[quality |-> DefaultQuality, sizeKB |-> SizeKBOf(dataUrl)]>>)
    /\ widthInput' = TextOf(Num(CropSize(originalImage)))
    /\ heightInput' = TextOf(Num(CropSize(originalImage)))
    /\ aspectRatio' = <<1, 1>>
    /\ notice' = "cropped"
    /\ rotHist' = <<>>
    /\ UNCHANGED <<originalImage, decoding, reads, loading, rotationAngle,
                   overlay, progressText, resizes>>

CropFail ==
    /\ Spend
    /\ HasSrc(originalImage)
    /\ DrawThrows(originalImage)
    /\ canvas' = CroppedCanvas(originalImage)
    /\ notice' = "unexpected"
    /\ last' = Called("crop", "failed", NoArgs, rotationAngle, <<>>)
    /\ rotHist' = <<>>
    /\ UNCHANGED <<originalImage, decoding, reads, loading, rotationAngle,
                   aspectRatio, widthInput, heightInput, preview, downloadLink,
                   overlay, progressText, resizes>>

-----------------------------------------------------------------------------
(* The session *)

Next ==
    \/ \E file \in Files : ProcessFileRefused(file)
    \/ \E file \in Files : ProcessFile(file)
    \/ \E k \in 1 .. MaxReads : ReaderLoad(k)
    \/ \E k \in 1 .. MaxReads : ReaderError(k)
    \/ ImageLoad
    \/ ImageError
    \/ \E text \in TypedTexts : TypeWidth(text)
    \/ \E text \in TypedTexts : TypeHeight(text)
    \/ ResizeNoImage
    \/ ResizeInvalid
    \/ \E t \in SessionTargets : ResizeStart(t[1], t[2])
    \/ \E k \in 1 .. MaxResizes : ProgressTick(k)
    \/ \E k \in 1 .. MaxResizes, enc \in AppEncoders : ResizeFinish(k, enc)
    \/ \E k \in 1 .. MaxResizes : ResizeFail(k)
    \/ RotateNoImage
    \/ \E enc \in AppEncoders : RotateImage(enc)
    \/ RotateFail
    \/ CropNoImage
    \/ \E enc \in AppEncoders : CropSquare(enc)
    \/ CropFail

Spec == Init /\ [][Next]_vars

-----------------------------------------------------------------------------
(* Sessions that resize against every target size and unit *)

Picture(name) == CHOOSE file \in Files : file.name = name

EncodeFiles == {Picture("landscape"), Picture("corrupt")}

EncodeNext ==
    \/ \E file \in EncodeFiles : ProcessFile(file)
    \/ \E k \in 1 .. MaxReads : ReaderLoad(k)
    \/ ImageLoad
    \/ ImageError
    \/ ResizeNoImage
    \/ ResizeInvalid
    \/ \E text \in TargetTexts, unit \in Units : ResizeStart(text, unit)
    \/ \E k \in 1 .. MaxResizes : ProgressTick(k)
    \/ \E k \in 1 .. MaxResizes, enc \in AppEncoders : ResizeFinish(k, enc)
    \/ \E k \in 1 .. MaxResizes : ResizeFail(k)

EncodeInit == SearchIdle /\ AppInit /\ events = EncodeEvents

SpecEncode == EncodeInit /\ [][EncodeNext]_vars

-----------------------------------------------------------------------------
(* Sessions of loads, rotations and crops *)

RotateFiles == {Picture("landscape"), Picture("portrait"), Picture("corrupt")}

RotateInit == SearchIdle /\ AppInit /\ events = RotateEvents

RotateNext ==
    \/ \E file \in RotateFiles : ProcessFile(file)
    \/ \E k \in 1 .. MaxReads : ReaderLoad(k)
    \/ ImageLoad
    \/ ImageError
    \/ RotateNoImage
    \/ \E enc \in AppEncoders : RotateImage(enc)
    \/ RotateFail
    \/ CropNoImage
    \/ \E enc \in AppEncoders : CropSquare(enc)
    \/ CropFail

SpecRotate == RotateInit /\ [][RotateNext]_vars

-----------------------------------------------------------------------------
(* Sessions of loads and of resizes, rotations and crops in any order, with
   no target size *)

TransformFiles == {Picture("landscape"), Picture("portrait"), Picture("corrupt")}

\* the number typed in the width or the height field
TransformTexts == {<<400>>}

TransformEncoders == {<<1365, 1366, 2731, 4097>>}

TransformInit == SearchIdle /\ AppInit /\ events = TransformEvents

TransformNext ==
    \/ \E file \in TransformFiles : ProcessFile(file)
    \/ \E k \in 1 .. MaxReads : ReaderLoad(k)
    \/ ImageLoad
    \/ ImageError
    \/ \E text \in TransformTexts : TypeWidth(text)
    \/ \E text \in TransformTexts : TypeHeight(text)
    \/ ResizeInvalid
    \/ ResizeStart(NaN, "KB")
    \/ \E k \in 1 .. MaxResizes : ProgressTick(k)
    \/ \E k \in 1 .. MaxResizes, enc \in TransformEncoders : ResizeFinish(k, enc)
    \/ \E k \in 1 .. MaxResizes : ResizeFail(k)
    \/ \E enc \in TransformEncoders : RotateImage(enc)
    \/ RotateFail
    \/ \E enc \in TransformEncoders : CropSquare(enc)
    \/ CropFail

SpecTransform == TransformInit /\ [][TransformNext]_vars

-----------------------------------------------------------------------------
(* Sessions that watch the progress overlay.  The interval timer of
   simulateProgress keeps firing every 50 ms until it is cleared, so every
   tick that is due happens, the last one included. *)

ProgressFiles == {Picture("landscape"), Picture("corrupt")}

ProgressEncoders == {<<1365, 1366, 2731, 4097>>}

ProgressInit == SearchIdle /\ AppInit /\ events = ProgressEvents

ProgressNext ==
    \/ \E file \in ProgressFiles : ProcessFile(file)
    \/ \E k \in 1 .. MaxReads : ReaderLoad(k)
    \/ ImageLoad
    \/ ImageError
    \/ ResizeNoImage
    \/ ResizeInvalid
    \/ ResizeStart(NaN, "KB")
    \/ \E k \in 1 .. MaxResizes : ProgressTick(k)
    \/ \E k \in 1 .. MaxResizes, enc \in ProgressEncoders : ResizeFinish(k, enc)
    \/ \E k \in 1 .. MaxResizes : ResizeFail(k)

\* the timers of the suspended resizeImage calls fire
TimersFire ==
    /\ \A k \in 1 .. MaxResizes : WF_vars(ProgressTick(k))
    /\ \A k \in 1 .. MaxResizes :
          WF_vars(\E enc \in ProgressEncoders : ResizeFinish(k, enc))
    /\ \A k \in 1 .. MaxResizes : WF_vars(ResizeFail(k))

SpecProgress == ProgressInit /\ [][ProgressNext]_vars /\ TimersFire

-----------------------------------------------------------------------------
(* The theme toggle.  ImageResizer.bindEvents (app.js, lines 54-57) and
   ThemeManager.bindEvents (theme.js, lines 21-26) each add a click listener
   to the .theme-toggle element; one click runs both, one after the other. *)

Theme(dark, saved) == [dark |-> dark, saved |-> saved]

\* ImageResizer.toggleTheme (app.js)
ToggleTheme(theme) ==
    IF theme.dark THEN Theme(FALSE, "false") ELSE Theme(TRUE, "true")

\* ThemeManager.toggleTheme (theme.js): the class and the saved value
ThemeManagerToggleTheme(theme) ==
    IF theme.dark THEN Theme(FALSE, "false") ELSE Theme(TRUE, "true")

\* the listeners of a click on .theme-toggle, run in turn
ThemeToggleListeners(theme) == ToggleTheme(ThemeManagerToggleTheme(theme))

ClickThemeToggle ==
    /\ events > 0 /\ events' = events - 1
    /\ LET after == ThemeToggleListeners(Theme(darkMode, savedMode))
       IN  /\ darkMode' = after.dark
           /\ savedMode' = after.saved
    /\ themeClicks' = themeClicks + 1
    /\ UNCHANGED searchVars
    /\ UNCHANGED resizerVars

ThemeFiles == {Picture("landscape")}

ThemeEncoders == {<<1365, 1366, 2731, 4097>>}

ThemeInit ==
    /\ SearchIdle
    /\ \E saved \in SavedModes : LoadTheme(saved)
    /\ ResizerInit
    /\ events = ThemeEvents

ThemeNext ==
    \/ ClickThemeToggle
    \/ \E file \in ThemeFiles : ProcessFile(file)
    \/ \E k \in 1 .. MaxReads : ReaderLoad(k)
    \/ ImageLoad
    \/ RotateNoImage
    \/ \E enc \in ThemeEncoders : RotateImage(enc)

SpecTheme == ThemeInit /\ [][ThemeNext]_vars

-----------------------------------------------------------------------------
(* The search, one iteration per step *)

SearchCanvas == [width |-> 400, height |-> 300, pic |-> "searched"]

SearchInit ==
    /\ pc = "loop"
    /\ search = SearchStart
    /\ sEnc \in Encoders
    /\ sTarget \in SearchTargets
    /\ sResult = <<>>
    /\ AppInit
    /\ events = 0

SearchIterate ==
    /\ pc = "loop"
    /\ search.i < Iterations
    /\ search' = SearchStep(search, SearchCanvas, sEnc, sTarget)
    /\ UNCHANGED <<pc, sEnc, sTarget, sResult>>
    /\ UNCHANGED appVars

SearchExitLoop ==
    /\ pc = "loop"
    /\ search.i >= Iterations
    /\ pc' = "floor"
    /\ UNCHANGED <<search, sEnc, sTarget, sResult>>
    /\ UNCHANGED appVars

SearchFallback ==
    /\ pc = "floor"
    /\ search' = SearchFloor(search, SearchCanvas, sEnc)
    /\ pc' = "text"
    /\ UNCHANGED <<sEnc, sTarget, sResult>>
    /\ UNCHANGED appVars

\* lines 282-288: the text of the download link, and the return
SearchReturn ==
    /\ pc = "text"
    /\ sResult' = <<[dataUrl |-> search.bestDataUrl, sizeKB |-> search.bestSize,
                     text |-> <<"Download", SizeText(search.bestSize)>>,
                     encodes |-> search.attempts]>>
    /\ pc' = "done"
    /\ UNCHANGED <<search, sEnc, sTarget>>
    /\ UNCHANGED appVars

SearchNext == SearchIterate \/ SearchExitLoop \/ SearchFallback \/ SearchReturn

SpecSearch == SearchInit /\ [][SearchNext]_vars

-----------------------------------------------------------------------------
(* The same target typed in MB and in KB: lines 205-206, 223 and 233 of
   resizeImage applied to one canvas and one encoder.  sTarget is the value v
   typed with the unit MB; sResult collects the run of each unit. *)

\* the text of 1024 * v, typed with the unit KB
KilobytesText(text) == <<text[1] * 1024>>

\* lines 205-206, 222-224, 233: parse the field, normalise to KB, encode
TargetRun(text, unit) ==
    GenerateOptimizedImage(SearchCanvas, sEnc,
                           NormaliseTarget(ParseFloat(text), unit))

UnitsInit ==
    /\ pc = "units"
    /\ search = SearchStart
    /\ sEnc \in UnitEncoders
    /\ sTarget \in UnitValues
    /\ sResult = <<>>
    /\ AppInit
    /\ events = 0

\* whether the run of a unit is recorded
HasRun(unit) == \E j \in 1 .. Len(sResult) : sResult[j].unit = unit

ResizeMegabytes ==
    /\ pc = "units"
    /\ ~HasRun("MB")
    /\ sResult' = Append(sResult, [unit |-> "MB", run |-> TargetRun(sTarget, "MB")])
    /\ UNCHANGED <<pc, search, sEnc, sTarget>>
    /\ UNCHANGED appVars

ResizeKilobytes ==
    /\ pc = "units"
    /\ ~HasRun("KB")
    /\ sResult' = Append(sResult, [unit |-> "KB",
                                   run |-> TargetRun(KilobytesText(sTarget), "KB")])
    /\ UNCHANGED <<pc, search, sEnc, sTarget>>
    /\ UNCHANGED appVars

UnitsNext == ResizeMegabytes \/ ResizeKilobytes

SpecUnits == UnitsInit /\ [][UnitsNext]_vars


-----------------------------------------------------------------------------
(* Claims about compressToTargetSize, under SpecSearch *)

\* the size of the encode at quality 0.05
FloorSizeKB(enc) == SizeKBOf(ToDataURL(SearchCanvas, enc, MinQuality0))

\* the search has returned
Returned == pc = "done"

\* some quality the loop attempted met the target
SomeAttemptFits ==
    \E j \in 1 .. Len(search.attempts) :
        j <= Iterations /\ LeqNum(search.attempts[j].sizeKB, sTarget)

\* C1: for an encoder whose size does not shrink as the quality grows and a
\* target > 0, if the encode at quality 0.05 is within the target then the size
\* compressToTargetSize reports (and writes to the download link) is within it
C1_EncodeSearchBound ==
    (Returned /\ Monotone(sEnc) /\ Positive(sTarget)
        /\ LeqNum(FloorSizeKB(sEnc), sTarget))
    => /\ LeqNum(sResult[1].sizeKB, sTarget)
       /\ sResult[1].sizeKB = SizeKBOf(sResult[1].dataUrl)
       /\ sResult[1].text = <<"Download", SizeText(sResult[1].sizeKB)>>

\* C1 witness: no quality of the loop met the target and the floor encode does
C1_FloorFallbackFits ==
    /\ Returned /\ Monotone(sEnc) /\ Positive(sTarget)
    /\ ~SomeAttemptFits
    /\ LeqNum(FloorSizeKB(sEnc), sTarget)
    /\ LeqNum(sResult[1].sizeKB, sTarget)

\* C2 as stated: every search performs exactly 10 encodes
C2_AlwaysTenEncodes ==
    Returned => Len(sResult[1].encodes) = Iterations

\* C2 amended: the loop performs exactly 10 encodes whatever the target and the
\* sizes are; when none of them met the target one more encode, at quality 0.05,
\* follows: 10 encodes when some attempt fits, 11 otherwise
C2_TenEncodesPlusFloor ==
    Returned =>
        /\ search.i = Iterations
        /\ Len(sResult[1].encodes) = IF SomeAttemptFits THEN Iterations ELSE Iterations + 1
        /\ ~SomeAttemptFits =>
              sResult[1].encodes[Iterations + 1].quality = MinQuality0

\* C2 witness: a search in which no attempted quality met the target
C2_NoAttemptFits ==
    Returned /\ ~SomeAttemptFits /\ Len(sResult[1].encodes) = Iterations + 1


-----------------------------------------------------------------------------
(* Claims about generateOptimizedImage, under SpecEncode *)

\* the call of resizeImage that ran last has produced its output
Resized == last.op = "resize" /\ last.outcome = "resized"

\* the target of the last resizeImage, in KB
LastTargetKB == NormaliseTarget(last.args.targetSize, last.args.unit)

\* C3: when the target size is absent (not a number) or its value in KB is
\* <= 0, for either unit, the resize makes exactly one encode, at quality 0.9,
\* and runs no search: the output is that encode and no size is written
C3_NoTargetDefault ==
    (Resized /\ ~Positive(LastTargetKB))
    => /\ Len(last.encodes) = 1
       /\ last.encodes[1].quality = DefaultQuality
       /\ downloadLink.href[1].quality = DefaultQuality
       /\ downloadLink.href[1].pic = canvas

\* C3 witness: a resize in MB whose target is negative
C3_NegativeMegabytes ==
    /\ Resized
    /\ last.args.unit = "MB"
    /\ ~IsNaN(last.args.targetSize) /\ last.args.targetSize[1] < 0
    /\ Len(last.encodes) = 1

-----------------------------------------------------------------------------
(* Claims about the unit of the target, under SpecUnits *)

\* the recorded run of a unit
RunOf(unit) == (CHOOSE j \in 1 .. Len(sResult) : sResult[j].unit = unit)

\* C4: for a positive value v, one canvas and one encoder, the resize with
\* target v MB and the resize with target 1024 * v KB attempt the same sequence
\* of qualities and return the same data URL, size and link text
C4_SameBudget ==
    (HasRun("MB") /\ HasRun("KB"))
    => sResult[RunOf("MB")].run = sResult[RunOf("KB")].run

\* C4 witness: 1 MB and 1024 KB both searched and returned exactly 1024 KB,
\* with an encoder that gives 1025 KB at some quality
C4_OneMegabyte ==
    /\ HasRun("MB") /\ HasRun("KB")
    /\ sTarget = <<1>>
    /\ Len(sResult[RunOf("MB")].run.encodes) >= Iterations
    /\ sResult[RunOf("KB")].run.sizeKB = 1024
    /\ \E j \in 1 .. Len(sResult[RunOf("MB")].run.encodes) :
           sResult[RunOf("MB")].run.encodes[j].sizeKB = 1025

-----------------------------------------------------------------------------
(* Claims about resizeImage, rotateImage and cropSquare, under SpecTransform *)

\* the call found a decoded picture in the image element
OnPicture == last.image.state = "complete"

\* C5: a resizeImage with positive integers w and h that produces its output
\* leaves a canvas of exactly w by h, and encodes that canvas, whatever the
\* size of the source, the rotation angle and the earlier rotations and crops
C5_ResizeGeometry ==
    (Resized /\ Positive(last.args.width) /\ Positive(last.args.height))
    => /\ canvas.width = last.args.width[1]
       /\ canvas.height = last.args.height[1]
       /\ downloadLink.href[1].pic = canvas

\* C5 witness: the 800 x 600 picture rotated once (a canvas of 600 x 800), then
\* resized to the 400 x 533 the fields hold after 400 is typed as the width
C5_ResizeAfterRotate ==
    /\ Resized /\ OnPicture
    /\ rotationAngle = 90
    /\ last.image.width = 800 /\ last.image.height = 600
    /\ last.before = <<600, 800>>
    /\ last.args.width = <<400>> /\ last.args.height = <<533>>
    /\ canvas.width = 400 /\ canvas.height = 533

Rotated == last.op = "rotate" /\ last.outcome = "rotated"

\* the angle of an odd number of quarter turns
Swapping(angle) == angle \in {90, 270}

\* C7: after any sequence of operations on a loaded picture, rotateImage leaves
\* a canvas with the size of the source of the picture, swapped exactly when
\* the new angle is 90 or 270, whatever the size of the canvas before
C7_RotateFromSource ==
    (Rotated /\ OnPicture)
    => /\ canvas.width = IF Swapping(last.angle) THEN last.image.height
                                                 ELSE last.image.width
       /\ canvas.height = IF Swapping(last.angle) THEN last.image.width
                                                  ELSE last.image.height
       /\ canvas.pic.img = last.image.src
       /\ downloadLink.href[1].pic = canvas

\* C7 witness: the 800 x 600 picture resized to 400 x 300, then rotated once
C7_RotateAfterResize ==
    /\ Rotated /\ OnPicture
    /\ last.image.width = 800 /\ last.image.height = 600
    /\ last.before = <<400, 300>>
    /\ last.angle = 90
    /\ canvas.width = 600 /\ canvas.height = 800

Cropped == last.op = "crop" /\ last.outcome = "cropped"

\* C8: on a loaded picture, after any resizes and rotations, cropSquare leaves a
\* square canvas whose side is the shorter side of the source, cut at
\* sx = (width - size) / 2 and sy = (height - size) / 2, one of which is 0
C8_CropSquareness ==
    (Cropped /\ OnPicture)
    => LET size == IF last.image.width <= last.image.height
                   THEN last.image.width ELSE last.image.height
       IN  /\ canvas.width = size /\ canvas.height = size
           /\ canvas.pic.size = size
           /\ canvas.pic.sx = <<last.image.width - size, 2>>
           /\ canvas.pic.sy = <<last.image.height - size, 2>>
           /\ canvas.pic.sx[1] = 0 \/ canvas.pic.sy[1] = 0
           /\ downloadLink.href[1].pic = canvas

\* C8 witness: the 2 x 5 picture cropped after a rotation left a 5 x 2 canvas
C8_CropAfterRotate ==
    /\ Cropped /\ OnPicture
    /\ last.image.width = 2 /\ last.image.height = 5
    /\ last.before = <<5, 2>>
    /\ rotationAngle = 90
    /\ canvas.width = 2 /\ canvas.height = 2
    /\ canvas.pic.sy = <<3, 2>>

-----------------------------------------------------------------------------
(* Claims about the retained state, under SpecTransform *)

\* a call of a transform ends in this step with the given outcome
Ends(outcome) == last' # last /\ last'.outcome = outcome

\* the image element finishes decoding a picture in this step
Loads == decoding # <<>> /\ decoding' = <<>> /\ originalImage'.state = "complete"

Angles == {0, 90, 180, 270}

C12_RetainedFrame ==
    [][/\ ((Ends("rotated") \/ Ends("cropped")) /\ last'.image.state = "complete")
          => /\ widthInput' = <<canvas'.width>>
             /\ heightInput' = <<canvas'.height>>
             /\ aspectRatio' = Ratio(canvas'.width, canvas'.height)
       /\ (Ends("cropped") /\ last'.image.state = "complete")
          => aspectRatio' = <<1, 1>>
       /\ (last' # last /\ last'.op = "resize") => aspectRatio' = aspectRatio]_vars

\* C12 witness: the 800 x 600 picture rotated once: fields 600 and 800, ratio 3/4
C12_RotatedFields ==
    /\ Rotated /\ OnPicture
    /\ canvas.width = 600 /\ canvas.height = 800
    /\ widthInput = <<600>> /\ heightInput = <<800>>
    /\ aspectRatio = <<3, 4>>


-----------------------------------------------------------------------------
(* Claims about the refusals of the transforms, under Spec *)

\* C9 as stated: a resize of a loaded picture whose width or height is not a
\* positive number is refused as invalid input and nothing is started
C9_NonPositiveRejected ==
    (last.op = "resize" /\ OnPicture
        /\ (~Positive(last.args.width) \/ ~Positive(last.args.height)))
    => last.outcome = "invalid-input"

\* C10 as stated: a transform called while the image element holds no decoded
\* picture is refused with the no-image message
C10_NoImageRejected ==
    (last.op \in {"resize", "rotate", "crop"} /\ ~OnPicture)
    => last.outcome = "no-image"

-----------------------------------------------------------------------------
(* Claims about successive rotations, under SpecRotate *)

\* C6: four successive rotateImage calls restore the rotation angle held before
\* them; from a freshly loaded picture (angle 0) they bring the angle back to 0
\* and leave a canvas with the width and height of the source
C6_FourRotations ==
    Len(rotHist) = 4
    => /\ rotationAngle = rotHist[1]
       /\ (rotHist[1] = 0 /\ Rotated /\ OnPicture)
          => /\ rotationAngle = 0
             /\ canvas.width = last.image.width
             /\ canvas.height = last.image.height

\* C6 witness: the 2 x 5 picture after four rotations from angle 0
C6_FullTurn ==
    /\ Len(rotHist) = 4 /\ rotHist = <<0, 90, 180, 270>>
    /\ Rotated /\ OnPicture
    /\ last.image.width = 2 /\ last.image.height = 5
    /\ last.before = <<5, 2>>
    /\ canvas.width = 2 /\ canvas.height = 5
    /\ rotationAngle = 0

-----------------------------------------------------------------------------
(* Claims about failed loads, failed transforms and calls that overlap, under
   Spec *)

\* C13 as stated: the picture of the image element is replaced only by a load
\* that succeeds; a file that passes validateFile and then fails to be read or
\* decoded leaves the picture that was loaded before in place
C13_SourceSurvivesFailedLoad ==
    [][(originalImage.state = "complete" /\ ~Loads)
       => /\ originalImage'.state = "complete"
          /\ originalImage'.width = originalImage.width
          /\ originalImage'.height = originalImage.height]_vars

\* C14 as stated: a transform whose draw or encode fails leaves rotationAngle,
\* aspectRatio, the width and height fields, the preview and the download link
\* as they were before the call
C14_FailureLeavesNoTrace ==
    [][Ends("failed")
       => UNCHANGED <<rotationAngle, aspectRatio, widthInput, heightInput,
                      preview, downloadLink>>]_vars

\* C15 as stated: while a resizeImage waits for its progress animation, no
\* step other than its own changes the canvas, rotationAngle, aspectRatio or
\* the image element
C15_ResizeRunsAlone ==
    [][(resizes # <<>> /\ resizes' = resizes)
       => UNCHANGED <<canvas, rotationAngle, aspectRatio, originalImage>>]_vars

\* the size the text of the download link shows, if it shows one
ShowsSize == Len(downloadLink.text) = 2

\* C16 as stated: whenever the text of the download link shows a size, it is
\* the size computed for the data URL the link points to
C16_TruthfulSize ==
    (ShowsSize /\ Resized /\ OnPicture
        /\ Positive(last.args.width) /\ Positive(last.args.height))
    => downloadLink.text[2] = SizeText(SizeKBOf(downloadLink.href))

-----------------------------------------------------------------------------
(* Claims about a target that no quality reaches, under SpecEncode *)

\* none of the qualities the search loop of the last resize attempted fitted
NoAttemptFitted ==
    /\ Len(last.encodes) >= Iterations
    /\ \A j \in 1 .. Iterations : ~LeqNum(last.encodes[j].sizeKB, LastTargetKB)

\* C17: when none of the attempted qualities gives sizeKB <= targetKB, the
\* resize still writes its output: the encode at quality 0.05, reported with
\* its own size even when that exceeds the target; and a resize fails only
\* when drawImage throws on a broken image, never for missing the target
C17_MissIsNotAnError ==
    /\ (Resized /\ Positive(LastTargetKB) /\ NoAttemptFitted)
       => /\ Len(last.encodes) = Iterations + 1
          /\ last.encodes[Iterations + 1].quality = MinQuality0
          /\ downloadLink.href[1].quality = MinQuality0
          /\ downloadLink.href[1].pic = canvas
          /\ last.encodes[Iterations + 1].sizeKB = SizeKBOf(downloadLink.href)
          /\ downloadLink.text =
                <<"Download", SizeText(SizeKBOf(downloadLink.href))>>
    /\ (last.op = "resize" /\ last.outcome = "failed") => DrawThrows(last.image)

\* C17 witness: a resize to 1 KB of a canvas that never encodes under 2 KB
C17_OverTarget ==
    /\ Resized /\ OnPicture
    /\ LastTargetKB = <<1>>
    /\ NoAttemptFitted
    /\ SizeKBOf(downloadLink.href) = 2
    /\ downloadLink.text[2] = SizeText(2)

-----------------------------------------------------------------------------
(* Claims about the bounds of the search, under SpecSearch *)

\* attempt j of the loop met the target
Fits(j) == j <= Iterations /\ LeqNum(search.attempts[j].sizeKB, sTarget)

\* C18: throughout compressToTargetSize 0.05 <= minQuality <= quality <=
\* maxQuality <= 1.0; maxQuality - minQuality never grows; and, for an encoder
\* whose size does not shrink as the quality grows, when some attempt fits the
\* result returned is the fitting attempt of the highest quality
C18_SearchBounds ==
    /\ [](/\ MinQuality0 <= search.minQuality
          /\ search.minQuality <= search.quality
          /\ search.quality <= search.maxQuality
          /\ search.maxQuality <= MaxQuality0)
    /\ [][search'.maxQuality - search'.minQuality
             <= search.maxQuality - search.minQuality]_vars
    /\ []((Returned /\ Monotone(sEnc) /\ SomeAttemptFits)
          => \E j \in 1 .. Len(search.attempts) :
                /\ Fits(j)
                /\ sResult[1].dataUrl =
                      ToDataURL(SearchCanvas, sEnc, search.attempts[j].quality)
                /\ sResult[1].sizeKB = search.attempts[j].sizeKB
                /\ \A k \in 1 .. Len(search.attempts) :
                      Fits(k) => search.attempts[k].quality
                                    <= search.attempts[j].quality)

\* C18 witness: a search that missed at 0.95, then fitted at two qualities,
\* and returned the higher of them
C18_HighestOfTwoFits ==
    /\ Returned /\ Monotone(sEnc)
    /\ ~Fits(1)
    /\ \E j, k \in 2 .. Iterations :
          /\ Fits(j) /\ Fits(k)
          /\ search.attempts[j].quality < search.attempts[k].quality
          /\ sResult[1].dataUrl[1].quality >= search.attempts[k].quality
    /\ search.minQuality > MinQuality0 /\ search.maxQuality < MaxQuality0

-----------------------------------------------------------------------------
(* Claims about the progress overlay, under SpecProgress *)

\* C19: every resizeImage that shows the progress overlay hides it again: the
\* progress reaches 90 after finitely many ticks and both the success and the
\* exception path hide the overlay; the progress never passes 90; a call
\* refused for a missing image or invalid input does not show the overlay
C19_OverlayHidden ==
    /\ overlay ~> ~overlay
    /\ [](\A k \in DOMAIN resizes : resizes[k].progress < ProgressEnd)
    /\ [](resizes = <<>> => ~overlay)
    /\ [][(Ends("no-image") \/ Ends("invalid-input")) => UNCHANGED overlay]_vars

\* C19 witness: a resize that failed in drawImage on a broken image, after the
\* overlay was shown, and the overlay is hidden
C19_HiddenAfterFailure ==
    /\ last.op = "resize" /\ last.outcome = "failed"
    /\ progressText = PercentText(ProgressEnd)
    /\ notice = "unexpected"
    /\ ~overlay

-----------------------------------------------------------------------------
(* Claims about the theme toggle, under SpecTheme *)

\* C20 as stated: one click on .theme-toggle flips the dark mode exactly once
\* (the class is present after the click iff it was absent before), and the
\* value saved in localStorage matches the class after the click
C20_OneClickOneFlip ==
    [][themeClicks' # themeClicks
       => /\ darkMode' = ~darkMode
          /\ savedMode' = IF darkMode' THEN "true" ELSE "false"]_vars

====
